---------------------------- MODULE Spec2Model ----------------------------
(***************************************************************************)
(* The campaign delivery engine of afrimail: one EmailCampaign, its        *)
(* EmailQueue rows, its EmailDomainConfig, the EmailEvent log, the         *)
(* CampaignService calls (send / pause / resume / cancel), the background  *)
(* threads that EmailService.send_bulk_campaign starts, and the Celery     *)
(* tasks of the scheduled path (schedule_campaigns, send_campaign,         *)
(* process_campaign_queue, send_queued_email).                             *)
(*                                                                         *)
(* The database holds the authoritative rows.  Every worker works on       *)
(* in-memory model instances it loaded earlier (Django model objects):     *)
(* a save(update_fields=...) writes the instance's fields over the row,    *)
(* whatever the row holds by then.  The model keeps both: the rows         *)
(* (campaign, email_queue, email_config) and each worker's instances.      *)
(***************************************************************************)
EXTENDS Integers, Sequences, FiniteSets, TLC

\* ------------------------------------------------------------- bounds ---

\* Contacts on the campaign's lists.
NumContacts == 2

\* Background threads that can be alive at once.
MaxThreads == 2

\* How many times CampaignService.resume_campaign may run.
MaxResumes == 1

\* The largest daily_send_limit / monthly_send_limit of the configuration.
MaxLimit == 2

\* The clock stops after this many minutes.
MaxTime == 5

\* The most contact lists a campaign is sent to.
MaxLists == 2

\* Celery worker processes.
CeleryWorkers == 1

\* ---------------------------------------------------- program constants ---

\* max_retries of the send_queued_email task.
MaxRetries == 3

\* batch_size of the process_campaign_queue task.
TaskBatchSize == 50

\* EmailQueue.max_attempts default.
MaxAttempts == 3

\* Minutes per attempt in EmailQueue.mark_failed's retry delay.
RetryMinutes == 5

\* Rows per pass of _process_campaign_queue ([:10]).
BatchSize == 10

Contacts == 1..NumContacts

Threads == 1..MaxThreads

Workers == 1..CeleryWorkers

CampaignStatus == {"DRAFT", "SCHEDULED", "SENDING", "SENT", "PAUSED", "CANCELLED", "FAILED"}

QueueStatus == {"PENDING", "SENDING", "SENT", "FAILED", "RETRYING", "CANCELLED"}

EventTypes == {"SENT", "FAILED"}

VARIABLES
    contacts,       \* the Contact rows of the campaign's owner
    contact_lists,  \* campaign.contact_lists.all(): the contacts of each list
    campaign,       \* the EmailCampaign row
    email_queue,    \* the EmailQueue rows, in creation order (index = id)
    email_config,   \* the EmailDomainConfig row of the campaign
    email_events,   \* EmailEvent rows, counted per (contact, event_type)
    now,            \* timezone.now(), in minutes
    resumes,        \* resume_campaign calls so far
    resuming,       \* a resume_campaign call is between its status save and
                    \* its send_bulk_campaign call
    threads,        \* the background threads of _process_campaign_queue
    broker,         \* the Celery task messages that wait for a worker
    workers,        \* the Celery workers: the task each one runs
    result          \* what the last CampaignService.send_campaign call returned

vars == <<contacts, contact_lists, campaign, email_queue, email_config, email_events,
          now, resumes, resuming, threads, broker, workers, result>>

\* ------------------------------------------------------------ helpers ---

Min(a, b) == IF a <= b THEN a ELSE b

\* The first n elements of a sequence (a queryset slice [:n]).
Take(s, n) == SubSeq(s, 1, Min(n, Len(s)))

QueueIds == 1..Len(email_queue)

\* The elements of a set of numbers, in increasing order.
RECURSIVE SetToSeq(_)
SetToSeq(S) ==
    IF S = {} THEN <<>>
    ELSE LET first == CHOOSE x \in S : \A y \in S : x <= y
         IN <<first>> \o SetToSeq(S \ {first})

\* --------------------------------------------------------------- content ---

\* Content is a sequence of pieces.  A piece is a record: its kind, and the
\* data the kind carries.
Text == [kind |-> "text", value |-> <<>>]

\* The placeholder {{email}}.
EmailPlaceholder == [kind |-> "{{email}}", value |-> <<>>]

\* A link <a href="url">...</a>.
Link == [kind |-> "a", value |-> <<"url">>]

\* An e-mail address: the mailbox it names, and whether it is written with
\* capital letters.
Emails == [name : Contacts, upper : BOOLEAN]

\* str.lower() of an address.
Lower(email) == [email EXCEPT !.upper = FALSE]

\* order_by('priority', 'scheduled_at'): every row has priority 0, so the key
\* is scheduled_at; rows with equal keys come in creation order.
RECURSIVE OrderBy(_)
OrderBy(ids) ==
    IF ids = {} THEN <<>>
    ELSE LET first == CHOOSE i \in ids : \A j \in ids :
                          \/ email_queue[i].scheduled_at < email_queue[j].scheduled_at
                          \/ /\ email_queue[i].scheduled_at = email_queue[j].scheduled_at
                             /\ i <= j
         IN <<first>> \o OrderBy(ids \ {first})

\* --------------------------------------------- EmailDomainConfig methods ---

\* can_send_email without its daily-limit test.
can_send_email_no_daily(c) ==
    /\ c.is_active
    /\ c.domain_verified
    /\ ~(c.emails_sent_this_month >= c.monthly_send_limit)

\* can_send_email letting one more through: > where the code has >=.
can_send_email_one_more(c) ==
    /\ c.is_active
    /\ c.domain_verified
    /\ ~(c.emails_sent_today > c.daily_send_limit)
    /\ ~(c.emails_sent_this_month > c.monthly_send_limit)

\* EmailDomainConfig.can_send_email, on a row or on a loaded instance.
can_send_email(c) ==
    /\ c.is_active
    /\ c.domain_verified
    /\ ~(c.emails_sent_today >= c.daily_send_limit)
    /\ ~(c.emails_sent_this_month >= c.monthly_send_limit)

\* EmailDomainConfig.increment_usage on a loaded instance: the instance's
\* counters plus one are saved over the row (update_fields names only them).
increment_usage(inst, row) ==
    [row EXCEPT !.emails_sent_today = inst.emails_sent_today + 1,
                !.emails_sent_this_month = inst.emails_sent_this_month + 1]

\* EmailDomainConfig.reset_daily_usage: saves emails_sent_today only.
reset_daily_usage(row) == [row EXCEPT !.emails_sent_today = 0]

\* EmailDomainConfig.reset_monthly_usage: saves emails_sent_this_month only.
reset_monthly_usage(row) == [row EXCEPT !.emails_sent_this_month = 0]

\* ----------------------------------------------------- EmailQueue methods ---

\* mark_sent that saves sent_at and leaves the status as it is.
mark_sent_keeps_status(row) == [row EXCEPT !.sent_at = <<now>>]

\* EmailQueue.mark_sent: saves status and sent_at.  sent_at is a sequence:
\* empty for NULL, else the one time stamp.
mark_sent(row) == [row EXCEPT !.status = "SENT", !.sent_at = <<now>>]

\* mark_failed with a retry delay that does not grow with attempts.
mark_failed_fixed_delay(inst, row, error_message) ==
    LET attempts == inst.attempts + 1
    IN  IF attempts >= MaxAttempts
        THEN [row EXCEPT !.status = "FAILED",
                         !.attempts = attempts,
                         !.error_message = error_message,
                         !.scheduled_at = inst.scheduled_at]
        ELSE [row EXCEPT !.status = "RETRYING",
                         !.attempts = attempts,
                         !.error_message = error_message,
                         !.scheduled_at = now + RetryMinutes]

\* EmailQueue.mark_failed on a loaded instance: attempts is the instance's
\* attempts plus one; status, attempts, error_message and scheduled_at are
\* saved over the row.
mark_failed(inst, row, error_message) ==
    LET attempts == inst.attempts + 1
    IN  IF attempts >= MaxAttempts
        THEN [row EXCEPT !.status = "FAILED",
                         !.attempts = attempts,
                         !.error_message = error_message,
                         !.scheduled_at = inst.scheduled_at]
        ELSE [row EXCEPT !.status = "RETRYING",
                         !.attempts = attempts,
                         !.error_message = error_message,
                         !.scheduled_at = now + RetryMinutes * attempts]

\* --------------------------------------------------- EmailCampaign methods ---

start_sending(c) == [c EXCEPT !.status = "SENDING"]

complete_sending(c) == [c EXCEPT !.status = "SENT"]

pause_sending(c) == [c EXCEPT !.status = "PAUSED"]

cancel_sending(c) == [c EXCEPT !.status = "CANCELLED"]

\* EmailCampaign.increment_sent on a loaded instance.
increment_sent(inst, row) == [row EXCEPT !.emails_sent = inst.emails_sent + 1]

\* EmailCampaign.increment_delivered on a loaded instance.
increment_delivered(inst, row) ==
    [row EXCEPT !.emails_delivered = inst.emails_delivered + 1]

\* EmailCampaign.increment_failed on a loaded instance.
increment_failed(inst, row) == [row EXCEPT !.emails_failed = inst.emails_failed + 1]

\* EmailEvent.log_event(campaign, contact, event_type).
log_event(ev, contact, event_type) ==
    [ev EXCEPT ![<<contact, event_type>>] = @ + 1]

\* ------------------------------------------------------------ instances ---

\* A loaded EmailQueue instance: the fields mark_failed reads and writes back.
QueueInstance(i) ==
    [id |-> i,
     attempts |-> email_queue[i].attempts,
     scheduled_at |-> email_queue[i].scheduled_at]

NoJob == [id |-> 0, attempts |-> 0, scheduled_at |-> 0]

\* queued_email.campaign: a fresh EmailCampaign instance (its counters).
CampaignInstance ==
    [emails_sent |-> campaign.emails_sent,
     emails_delivered |-> campaign.emails_delivered,
     emails_failed |-> campaign.emails_failed]

NoCampaign == [emails_sent |-> 0, emails_delivered |-> 0, emails_failed |-> 0]

NoConfig == [is_active |-> FALSE, domain_verified |-> FALSE,
             daily_send_limit |-> 0, monthly_send_limit |-> 0,
             emails_sent_today |-> 0, emails_sent_this_month |-> 0]

\* The Celery task messages: a task name and its arguments.
SendCampaignTask == [task |-> "send_campaign", queue_id |-> 0, retries |-> 0]

ProcessCampaignQueueTask == [task |-> "process_campaign_queue", queue_id |-> 0, retries |-> 0]

SendQueuedEmailTask(queue_id, retries) ==
    [task |-> "send_queued_email", queue_id |-> queue_id, retries |-> retries]

\* A Celery worker that runs no task.
IdleWorker == [pc |-> "idle", queue_id |-> 0, retries |-> 0,
               camp |-> NoCampaign, conf |-> NoConfig]

\* A thread that is not running (never started, or returned).
IdleThread == [pc |-> "idle", batch |-> <<>>, job |-> NoJob,
               camp |-> NoCampaign, conf |-> NoConfig]

\* The results of CampaignService.send_campaign: no call made yet, the
\* success result, an error result.
NoResult == [success |-> FALSE, error |-> "", message |-> ""]

Started == [success |-> TRUE, error |-> "", message |-> "Campaign sending started successfully"]

Failure(error) == [success |-> FALSE, error |-> error, message |-> ""]

\* -------------------------------------------------------------- contacts ---

\* contact_list.contacts.filter(is_active=True, status='ACTIVE').
ActiveContacts(list) ==
    {c \in list : contacts[c].is_active /\ contacts[c].status = "ACTIVE"}

\* The loop of send_bulk_campaign over campaign.contact_lists.all(): the
\* contacts of each list that are active and whose email is not in
\* [c.email for c in contacts] join the set found so far.
RECURSIVE ResolveContacts(_, _)
ResolveContacts(lists, found) ==
    IF lists = <<>> THEN found
    ELSE LET emails == {contacts[c].email : c \in found}
             list_contacts == {c \in ActiveContacts(Head(lists)) :
                                  contacts[c].email \notin emails}
         IN ResolveContacts(Tail(lists), found \cup list_contacts)

\* EmailCampaign.calculate_recipient_count: the active contacts of every
\* list, added up.
RECURSIVE calculate_recipient_count(_)
calculate_recipient_count(lists) ==
    IF lists = <<>> THEN 0
    ELSE Cardinality(ActiveContacts(Head(lists))) + calculate_recipient_count(Tail(lists))

\* Contact.unsubscribe.
unsubscribe(c) ==
    /\ contacts[c].is_active
    /\ contacts' = [contacts EXCEPT ![c].status = "UNSUBSCRIBED", ![c].is_active = FALSE]
    /\ UNCHANGED <<contact_lists, broker, workers, campaign, email_queue, email_config, email_events,
                   now, resumes, resuming, threads, result>>

\* ------------------------------------------------------- personalization ---

\* EmailService._personalize_content: every placeholder the contact has a
\* value for is replaced by the value.
personalize_content(content, contact) ==
    [k \in 1..Len(content) |->
        IF content[k].kind = "{{email}}"
        THEN [kind |-> "text", value |-> <<contacts[contact].email>>]
        ELSE content[k]]

\* EmailService._add_tracking_pixel: the pixel's token holds the contact and
\* timezone.now().timestamp(); the pixel goes to the end of the HTML.
add_tracking_pixel(html_content, contact) ==
    Append(html_content, [kind |-> "img", value |-> <<"open", contact, now>>])

\* EmailService._add_click_tracking: the href of every link is replaced by a
\* tracking URL whose token holds the contact and the original URL.
add_click_tracking(html_content, contact) ==
    [k \in 1..Len(html_content) |->
        IF html_content[k].kind = "a" /\ Head(html_content[k].value) # "click"
        THEN [kind |-> "a", value |-> <<"click", contact, html_content[k].value>>]
        ELSE html_content[k]]

\* ------------------------------------------------------------------ Init ---

\* What the engine starts from: an empty queue and event log, no thread, no
\* call made yet.
InitEngine ==
    /\ email_queue = <<>>
    /\ email_events = [k \in Contacts \X EventTypes |-> 0]
    /\ now = 0
    /\ resumes = 0
    /\ resuming = FALSE
    /\ threads = [t \in Threads |-> IdleThread]
    /\ broker = {}
    /\ workers = [w \in Workers |-> IdleWorker]
    /\ result = NoResult

\* The configurations a campaign is created with: unused, limits set.
InitConfigs ==
    {[is_active |-> a, domain_verified |-> v,
      daily_send_limit |-> d, monthly_send_limit |-> m,
      emails_sent_today |-> 0, emails_sent_this_month |-> 0] :
        a \in BOOLEAN, v \in BOOLEAN,
        d \in 1..MaxLimit, m \in 1..MaxLimit}

\* A DRAFT campaign as CampaignService.create_campaign leaves it:
\* recipient_count is calculated from its lists.
DraftCampaign(config_id, subject, html_content, text_content) ==
    [status |-> "DRAFT", scheduled_at |-> 0, email_config_id |-> config_id,
     subject |-> subject, html_content |-> html_content, text_content |-> text_content,
     track_opens |-> TRUE, track_clicks |-> TRUE,
     recipient_count |-> calculate_recipient_count(contact_lists),
     emails_sent |-> 0, emails_delivered |-> 0, emails_failed |-> 0]

\* A campaign with a subject and an HTML body, on one list that holds every
\* contact; the contacts are active and have addresses of their own.
Init ==
    /\ contacts = [c \in Contacts |->
                      [email |-> [name |-> c, upper |-> FALSE],
                       is_active |-> TRUE, status |-> "ACTIVE"]]
    /\ contact_lists = <<Contacts>>
    /\ campaign = DraftCampaign(1, <<EmailPlaceholder>>, <<EmailPlaceholder, Link>>, <<>>)
    /\ email_config \in {c \in InitConfigs : c.daily_send_limit <= c.monthly_send_limit}
    /\ InitEngine

\* The address books of InitStart: every contact has an address of its own
\* (unique_together = ['user', 'email']); two addresses may differ in case only.
AddressBooks ==
    {book \in [Contacts -> [email : Emails, is_active : BOOLEAN,
                            status : {"ACTIVE", "UNSUBSCRIBED"}]] :
        /\ \A c \in Contacts : book[c].email.name <= c
        /\ \A c, d \in Contacts : c # d => book[c].email # book[d].email}

\* The lists a campaign can be on: up to MaxLists lists, none empty.
ListChoices ==
    UNION {[1..n -> SUBSET Contacts \ {{}}] : n \in 0..MaxLists}

\* Any DRAFT campaign over any address book: with or without configuration,
\* subject, HTML body and text body.
InitStart ==
    /\ contacts \in AddressBooks
    /\ contact_lists \in ListChoices
    /\ \E config_id \in 0..1,
          subject \in {<<>>, <<EmailPlaceholder>>},
          html_content \in {<<>>, <<EmailPlaceholder, Link>>},
          text_content \in {<<>>, <<Text>>} :
          campaign = DraftCampaign(config_id, subject, html_content, text_content)
    /\ email_config \in {c \in InitConfigs : /\ c.daily_send_limit = MaxLimit
                                              /\ c.monthly_send_limit = MaxLimit}
    /\ InitEngine

\* -------------------------------------------------------- EmailService ---

\* validate_campaign_for_sending without its recipient_count test.
validate_without_recipients ==
    IF campaign.status # "DRAFT" THEN "Campaign is not in draft status"
    ELSE IF campaign.email_config_id = 0 THEN "No email configuration selected"
    ELSE IF ~email_config.domain_verified THEN "Email domain is not verified"
    ELSE IF ~can_send_email(email_config)
         THEN "Email configuration has reached sending limits"
    ELSE IF campaign.html_content = <<>> /\ campaign.text_content = <<>>
         THEN "Campaign has no content"
    ELSE IF campaign.subject = <<>> THEN "Campaign has no subject"
    ELSE ""

\* CampaignService.validate_campaign_for_sending: the error of the first
\* test that fails, "" when the campaign is valid.
validate_campaign_for_sending ==
    IF campaign.status # "DRAFT" THEN "Campaign is not in draft status"
    ELSE IF campaign.email_config_id = 0 THEN "No email configuration selected"
    ELSE IF ~email_config.domain_verified THEN "Email domain is not verified"
    ELSE IF campaign.recipient_count = 0 THEN "Campaign has no recipients"
    ELSE IF ~can_send_email(email_config)
         THEN "Email configuration has reached sending limits"
    ELSE IF campaign.html_content = <<>> /\ campaign.text_content = <<>>
         THEN "Campaign has no content"
    ELSE IF campaign.subject = <<>> THEN "Campaign has no subject"
    ELSE ""

\* The HTML _queue_campaign_email stores: personalized, then the open pixel
\* and the click tracking the campaign asks for.
personalized_html(contact) ==
    LET html == personalize_content(campaign.html_content, contact)
        opens == IF campaign.track_opens THEN add_tracking_pixel(html, contact) ELSE html
    IN  IF campaign.track_clicks THEN add_click_tracking(opens, contact) ELSE opens

\* EmailService._queue_campaign_email: the new EmailQueue row.
queue_campaign_email(contact) ==
    [contact |-> contact, status |-> "PENDING", attempts |-> 0,
     scheduled_at |-> now, error_message |-> "", sent_at |-> <<>>,
     personalized_subject |-> personalize_content(campaign.subject, contact),
     personalized_html_content |-> personalized_html(contact),
     personalized_text_content |-> personalize_content(campaign.text_content, contact)]

\* The contacts send_bulk_campaign resolves.
Resolved == ResolveContacts(contact_lists, {})

\* The rows send_bulk_campaign queues: one per resolved contact, but for the
\* contacts in thrown: _queue_campaign_email catches its own exception, logs
\* it and returns without a row.
QueuedRows(thrown) ==
    LET order == SetToSeq(Resolved \ thrown)
    IN  [k \in 1..Len(order) |-> queue_campaign_email(order[k])]

\* The thread slot threading.Thread(...).start() takes.
FreeThread == CHOOSE t \in Threads :
                 /\ threads[t].pc = "idle"
                 /\ \A u \in Threads : threads[u].pc = "idle" => t <= u

\* EmailService.send_bulk_campaign.  exc: an exception outside
\* _queue_campaign_email (resolving the contacts), caught by the method.
\* thrown: the contacts for whom _queue_campaign_email threw.
send_bulk_campaign(exc, thrown) ==
    IF exc
    THEN /\ campaign' = [campaign EXCEPT !.status = "FAILED"]
         /\ UNCHANGED <<email_queue, threads>>
    ELSE /\ campaign' = start_sending([campaign EXCEPT !.recipient_count = Cardinality(Resolved)])
         /\ email_queue' = email_queue \o QueuedRows(thrown)
         /\ threads' = [threads EXCEPT ![FreeThread] = [IdleThread EXCEPT !.pc = "query"]]

\* ------------------------------------------------------ CampaignService ---

\* CampaignService.send_campaign.
send_campaign(exc, thrown) ==
    /\ IF validate_campaign_for_sending # ""
       THEN /\ result' = Failure(validate_campaign_for_sending)
            /\ UNCHANGED <<campaign, email_queue, threads>>
       ELSE /\ \E t \in Threads : threads[t].pc = "idle"
            /\ send_bulk_campaign(exc, thrown)
            /\ result' = IF exc THEN Failure("Failed to start campaign sending") ELSE Started
    /\ UNCHANGED <<email_config, email_events, now, contacts, contact_lists, broker, workers, resumes, resuming>>

\* CampaignService.pause_campaign.
pause_campaign ==
    /\ campaign.status = "SENDING"
    /\ campaign' = pause_sending(campaign)
    /\ UNCHANGED <<email_queue, email_config, email_events, now, contacts, contact_lists, broker, workers, result, resumes, resuming, threads>>

\* CampaignService.resume_campaign, first half: the status check and
\* campaign.status = 'SENDING'; campaign.save(update_fields=['status']).
resume_campaign_save ==
    /\ campaign.status = "PAUSED"
    /\ ~resuming
    /\ resumes < MaxResumes
    /\ campaign' = [campaign EXCEPT !.status = "SENDING"]
    /\ resuming' = TRUE
    /\ resumes' = resumes + 1
    /\ UNCHANGED <<email_queue, email_config, email_events, now, contacts, contact_lists, broker, workers,
                   result, threads>>

\* CampaignService.resume_campaign, second half: send_bulk_campaign again on
\* the same campaign ("Resume processing queue").
resume_campaign_bulk(exc, thrown) ==
    /\ resuming
    /\ \E t \in Threads : threads[t].pc = "idle"
    /\ send_bulk_campaign(exc, thrown)
    /\ resuming' = FALSE
    /\ UNCHANGED <<email_config, email_events, now, contacts, contact_lists, broker, workers, result, resumes>>

\* CampaignService.cancel_campaign.
cancel_campaign ==
    /\ campaign.status \in {"SENDING", "PAUSED", "SCHEDULED"}
    /\ campaign' = cancel_sending(campaign)
    /\ email_queue' = [i \in QueueIds |->
                          IF email_queue[i].status = "PENDING"
                          THEN [email_queue[i] EXCEPT !.status = "CANCELLED"]
                          ELSE email_queue[i]]
    /\ UNCHANGED <<email_config, email_events, now, contacts, contact_lists, broker, workers, result, resumes, resuming, threads>>

\* ------------------------------------ EmailService._process_campaign_queue ---

\* The error messages mark_failed is called with: the text of
\* _send_queued_email's False branch, and the str(e) of an exception.
Errors == {"Failed to send email", "Connection refused"}

\* The rows of the pass's queryset: status PENDING, scheduled_at <= now,
\* ordered, at most BatchSize.
PendingBatch ==
    Take(OrderBy({i \in QueueIds : /\ email_queue[i].status = "PENDING"
                                   /\ email_queue[i].scheduled_at <= now}),
         BatchSize)

\* The top of the loop: the pending queryset is evaluated; the thread holds
\* the rows as instances for the whole pass.
process_campaign_queue_query(t) ==
    /\ threads[t].pc = "query"
    /\ threads' = [threads EXCEPT ![t] =
          IF PendingBatch = <<>>
          THEN [@ EXCEPT !.pc = "check"]
          ELSE [@ EXCEPT !.pc = "batch",
                         !.batch = [k \in 1..Len(PendingBatch) |-> QueueInstance(PendingBatch[k])]]]
    /\ UNCHANGED <<campaign, email_queue, email_config, email_events, now, contacts, contact_lists, broker, workers, result, resumes, resuming>>

\* "Check if campaign is complete": the exists() query over PENDING and
\* RETRYING rows; the loop breaks either way.
process_campaign_queue_check(t) ==
    /\ threads[t].pc = "check"
    /\ threads' = [threads EXCEPT ![t] =
          IF \E i \in QueueIds : email_queue[i].status \in {"PENDING", "RETRYING"}
          THEN IdleThread
          ELSE [@ EXCEPT !.pc = "complete"]]
    /\ UNCHANGED <<campaign, email_queue, email_config, email_events, now, contacts, contact_lists, broker, workers, result, resumes, resuming>>

\* campaign.complete_sending() on the thread's campaign instance.
process_campaign_queue_complete(t) ==
    /\ threads[t].pc = "complete"
    /\ campaign' = complete_sending(campaign)
    /\ threads' = [threads EXCEPT ![t] = IdleThread]
    /\ UNCHANGED <<email_queue, email_config, email_events, now, contacts, contact_lists, broker, workers, result, resumes, resuming>>

\* A thread that ends after its first job.
AfterJobStops(th) ==
    [th EXCEPT !.pc = "idle", !.batch = <<>>,
               !.job = NoJob, !.camp = NoCampaign, !.conf = NoConfig]

\* Where the thread goes after a job: the next job of the pass, or the next pass.
AfterJob(th) ==
    [th EXCEPT !.pc = IF th.batch = <<>> THEN "query" ELSE "batch",
               !.job = NoJob, !.camp = NoCampaign, !.conf = NoConfig]

\* The result = False branch of _send_queued_email.
SendFailed(th) ==
    /\ email_queue' = [email_queue EXCEPT ![th.job.id] = mark_failed(th.job, @, "Failed to send email")]
    /\ campaign' = increment_failed(th.camp, campaign)

\* EmailService._send_queued_email up to the transport call: the instance's
\* campaign and email_config are loaded, and send_email checks the rate limit.
\* A denied send returns False at once.
send_queued_email_begin(t) ==
    /\ threads[t].pc = "batch"
    /\ LET th == [threads[t] EXCEPT !.job = Head(threads[t].batch),
                                    !.batch = Tail(threads[t].batch),
                                    !.camp = CampaignInstance,
                                    !.conf = email_config]
       IN  IF can_send_email(th.conf)
           THEN /\ threads' = [threads EXCEPT ![t] = [th EXCEPT !.pc = "transport"]]
                /\ UNCHANGED <<campaign, email_queue>>
           ELSE /\ SendFailed(th)
                /\ threads' = [threads EXCEPT ![t] = AfterJob(th)]
    /\ UNCHANGED <<email_config, email_events, now, contacts, contact_lists, broker, workers, result, resumes, resuming>>

\* The transport returns (ok: it accepted the message).  On success
\* send_email logs the SENT event and increments the usage, then
\* _send_queued_email marks the job sent and increments emails_sent.
send_queued_email_finish(t, ok) ==
    /\ threads[t].pc = "transport"
    /\ LET th == threads[t]
       IN  /\ IF ok
              THEN /\ email_events' = log_event(email_events, email_queue[th.job.id].contact, "SENT")
                   /\ email_config' = increment_usage(th.conf, email_config)
                   /\ email_queue' = [email_queue EXCEPT ![th.job.id] = mark_sent(@)]
                   /\ campaign' = increment_sent(th.camp, campaign)
              ELSE /\ SendFailed(th)
                   /\ UNCHANGED <<email_config, email_events>>
           /\ threads' = [threads EXCEPT ![t] = AfterJob(th)]
    /\ UNCHANGED <<now, contacts, contact_lists, broker, workers, result, resumes, resuming>>

\* The except branch of _send_queued_email: the body raised (the campaign or
\* the contact could not be loaded, the connection to the database dropped);
\* the job is marked failed with str(e) and nothing else is done.
send_queued_email_except(t, error_message) ==
    /\ threads[t].pc = "transport"
    /\ email_queue' = [email_queue EXCEPT ![threads[t].job.id] =
                          mark_failed(threads[t].job, @, error_message)]
    /\ threads' = [threads EXCEPT ![t] = AfterJob(threads[t])]
    /\ UNCHANGED <<campaign, email_config, email_events, now, contacts, contact_lists,
                   broker, workers, result, resumes, resuming>>

\* ---------------------------------------------------------- Celery tasks ---

\* The campaign admin form: status and scheduled_at are editable fields; the
\* operator schedules the DRAFT campaign for now or for later.
admin_schedule(at) ==
    /\ campaign.status = "DRAFT"
    /\ campaign' = [campaign EXCEPT !.status = "SCHEDULED", !.scheduled_at = at]
    /\ UNCHANGED <<contacts, contact_lists, email_queue, email_config, email_events,
                   now, resumes, resuming, threads, broker, workers, result>>

\* tasks.schedule_campaigns (Celery beat): send_campaign.delay for the
\* SCHEDULED campaign that is due.
schedule_campaigns ==
    /\ campaign.status = "SCHEDULED"
    /\ campaign.scheduled_at <= now
    /\ broker' = broker \cup {SendCampaignTask}
    /\ UNCHANGED <<contacts, contact_lists, campaign, email_queue, email_config,
                   email_events, now, resumes, resuming, threads, workers, result>>

\* tasks.send_campaign.
task_send_campaign(w) ==
    /\ workers[w].pc = "idle"
    /\ SendCampaignTask \in broker
    /\ IF campaign.status # "SCHEDULED"
       THEN /\ broker' = broker \ {SendCampaignTask}
            /\ UNCHANGED campaign
       ELSE /\ campaign' = start_sending(campaign)
            /\ broker' = (broker \ {SendCampaignTask}) \cup {ProcessCampaignQueueTask}
    /\ UNCHANGED <<contacts, contact_lists, email_queue, email_config, email_events,
                   now, resumes, resuming, threads, workers, result>>

\* The pending queryset of tasks.process_campaign_queue, in order.
PendingEmails ==
    OrderBy({i \in QueueIds : /\ email_queue[i].status = "PENDING"
                              /\ email_queue[i].scheduled_at <= now})

\* tasks.process_campaign_queue, up to pending_emails.exists().
task_process_campaign_queue_begin(w) ==
    /\ workers[w].pc = "idle"
    /\ ProcessCampaignQueueTask \in broker
    /\ broker' = broker \ {ProcessCampaignQueueTask}
    /\ workers' = [workers EXCEPT ![w].pc =
          IF campaign.status \notin {"SENDING", "SCHEDULED"} THEN "idle"
          ELSE IF PendingEmails = <<>> THEN "check"
          ELSE "dispatch"]
    /\ UNCHANGED <<contacts, contact_lists, campaign, email_queue, email_config,
                   email_events, now, resumes, resuming, threads, result>>

\* "Check if campaign is complete": the exists() query over PENDING,
\* RETRYING and SENDING rows; the task returns either way.
task_process_campaign_queue_check(w) ==
    /\ workers[w].pc = "check"
    /\ workers' = [workers EXCEPT ![w].pc =
          IF \E i \in QueueIds : email_queue[i].status \in {"PENDING", "RETRYING", "SENDING"}
          THEN "idle"
          ELSE "complete"]
    /\ UNCHANGED <<contacts, contact_lists, campaign, email_queue, email_config,
                   email_events, now, resumes, resuming, threads, broker, result>>

\* campaign.complete_sending() in the task.
task_process_campaign_queue_complete(w) ==
    /\ workers[w].pc = "complete"
    /\ campaign' = complete_sending(campaign)
    /\ workers' = [workers EXCEPT ![w] = IdleWorker]
    /\ UNCHANGED <<contacts, contact_lists, email_queue, email_config, email_events,
                   now, resumes, resuming, threads, broker, result>>

\* "Send emails in batches": send_queued_email.delay for the first
\* batch_size pending rows, and the task again when there are more.
task_process_campaign_queue_dispatch(w) ==
    /\ workers[w].pc = "dispatch"
    /\ LET batch == Take(PendingEmails, TaskBatchSize)
       IN  broker' = broker
                \cup {SendQueuedEmailTask(batch[k], 0) : k \in 1..Len(batch)}
                \cup (IF Len(PendingEmails) > TaskBatchSize
                      THEN {ProcessCampaignQueueTask} ELSE {})
    /\ workers' = [workers EXCEPT ![w] = IdleWorker]
    /\ UNCHANGED <<contacts, contact_lists, campaign, email_queue, email_config,
                   email_events, now, resumes, resuming, threads, result>>

\* The except branch of tasks.send_queued_email: the row is fetched again and
\* marked failed; the task is retried while retries < max_retries, and only
\* the last retry increments emails_failed.
TaskFailed(queue_id, retries) ==
    /\ email_queue' = [email_queue EXCEPT ![queue_id] = mark_failed(QueueInstance(queue_id), @, "Failed to send email")]
    /\ IF retries < MaxRetries
       THEN /\ broker' = (broker \ {SendQueuedEmailTask(queue_id, retries)})
                              \cup {SendQueuedEmailTask(queue_id, retries + 1)}
            /\ UNCHANGED campaign
       ELSE /\ broker' = broker \ {SendQueuedEmailTask(queue_id, retries)}
            /\ campaign' = increment_failed(CampaignInstance, campaign)

\* tasks.send_queued_email up to the transport call: a row that is not
\* PENDING ends the task; a PENDING row is saved as SENDING, its campaign and
\* email_config are loaded, and send_email checks the rate limit.
task_send_queued_email_begin(w, queue_id, retries) ==
    /\ workers[w].pc = "idle"
    /\ SendQueuedEmailTask(queue_id, retries) \in broker
    /\ IF email_queue[queue_id].status # "PENDING"
       THEN /\ broker' = broker \ {SendQueuedEmailTask(queue_id, retries)}
            /\ UNCHANGED <<campaign, email_queue, workers>>
       ELSE IF can_send_email(email_config)
       THEN /\ email_queue' = [email_queue EXCEPT ![queue_id].status = "SENDING"]
            /\ workers' = [workers EXCEPT ![w] =
                  [pc |-> "transport", queue_id |-> queue_id, retries |-> retries,
                   camp |-> CampaignInstance, conf |-> email_config]]
            /\ broker' = broker \ {SendQueuedEmailTask(queue_id, retries)}
            /\ UNCHANGED campaign
       ELSE /\ TaskFailed(queue_id, retries)
            /\ UNCHANGED workers
    /\ UNCHANGED <<contacts, contact_lists, email_config, email_events, now, resumes,
                   resuming, threads, result>>

\* The transport returns in the task.  On success the job is marked sent and
\* emails_sent and emails_delivered are incremented.
task_send_queued_email_finish(w, ok) ==
    /\ workers[w].pc = "transport"
    /\ LET me == workers[w]
       IN  IF ok
           THEN /\ email_events' = log_event(email_events, email_queue[me.queue_id].contact, "SENT")
                /\ email_config' = increment_usage(me.conf, email_config)
                /\ email_queue' = [email_queue EXCEPT ![me.queue_id] = mark_sent(@)]
                /\ campaign' = increment_delivered(me.camp, increment_sent(me.camp, campaign))
                /\ UNCHANGED broker
           ELSE /\ TaskFailed(me.queue_id, me.retries)
                /\ UNCHANGED <<email_config, email_events>>
    /\ workers' = [workers EXCEPT ![w] = IdleWorker]
    /\ UNCHANGED <<contacts, contact_lists, now, resumes, resuming, threads, result>>

\* ------------------------------------------------------ the reset tasks ---

\* tasks.reset_daily_email_limits, the beat task: every active configuration
\* is reset.  (A reset of an unused counter changes nothing.)
reset_daily_email_limits ==
    /\ email_config.is_active
    /\ email_config.emails_sent_today > 0
    /\ email_config' = reset_daily_usage(email_config)
    /\ UNCHANGED <<contacts, contact_lists, broker, workers, campaign, email_queue,
                   email_events, now, resumes, resuming, threads, result>>

\* tasks.reset_monthly_email_limits, the beat task.
reset_monthly_email_limits ==
    /\ email_config.is_active
    /\ email_config.emails_sent_this_month > 0
    /\ email_config' = reset_monthly_usage(email_config)
    /\ UNCHANGED <<contacts, contact_lists, broker, workers, campaign, email_queue,
                   email_events, now, resumes, resuming, threads, result>>

\* ------------------------------------------------- EmailQueue.mark_failed ---

\* One job of a SENDING campaign in any state a worker can hold it in when the
\* send fails: picked or not, failed before or not, sent by another worker.
InitMarkFailed ==
    /\ contacts = [c \in Contacts |->
                      [email |-> [name |-> c, upper |-> FALSE],
                       is_active |-> TRUE, status |-> "ACTIVE"]]
    /\ contact_lists = <<Contacts>>
    /\ campaign = start_sending(DraftCampaign(1, <<EmailPlaceholder>>, <<EmailPlaceholder, Link>>, <<>>))
    /\ email_config = [is_active |-> TRUE, domain_verified |-> TRUE,
                       daily_send_limit |-> MaxLimit, monthly_send_limit |-> MaxLimit,
                       emails_sent_today |-> 0, emails_sent_this_month |-> 0]
    /\ now \in {0, RetryMinutes}
    /\ \E status \in {"PENDING", "SENDING", "RETRYING", "SENT"},
          attempts \in 0..(MaxAttempts - 1),
          scheduled_at \in {0, RetryMinutes},
          error_message \in {""} \cup Errors :
          email_queue = <<[queue_campaign_email(1) EXCEPT
                              !.status = status,
                              !.attempts = attempts,
                              !.scheduled_at = scheduled_at,
                              !.error_message = error_message,
                              !.sent_at = IF status = "SENT" THEN <<0>> ELSE <<>>]>>
    /\ email_events = [k \in Contacts \X EventTypes |-> 0]
    /\ resumes = 0
    /\ resuming = FALSE
    /\ threads = [t \in Threads |-> IdleThread]
    /\ broker = {}
    /\ workers = [w \in Workers |-> IdleWorker]
    /\ result = NoResult

\* queued_email.mark_failed(error_message) on a freshly loaded row.
mark_failed_call(i, error_message) ==
    /\ email_queue[i].attempts < MaxAttempts
    /\ email_queue' = [email_queue EXCEPT ![i] = mark_failed(QueueInstance(i), @, error_message)]
    /\ UNCHANGED <<contacts, contact_lists, broker, workers, campaign, email_config,
                   email_events, now, resumes, resuming, threads, result>>

\* ------------------------------------------------------------------ time ---

\* The clock moves on, in steps of the retry delay.  No step of the engine
\* waits for it: a PENDING row is due from the moment it is created, and no
\* query selects RETRYING rows.  Spec leaves the clock where it is; SpecCalls
\* lets it run between the operator's calls.
Tick ==
    /\ now + RetryMinutes <= MaxTime
    /\ now' = now + RetryMinutes
    /\ UNCHANGED <<contacts, contact_lists, broker, workers, campaign, email_queue, email_config,
                   email_events, resumes, resuming, threads, result>>

\* ------------------------------------------------------------------ Spec ---

Next ==
    \/ \E exc \in BOOLEAN, thrown \in SUBSET Contacts : send_campaign(exc, thrown)
    \/ pause_campaign
    \/ resume_campaign_save
    \/ \E exc \in BOOLEAN, thrown \in SUBSET Contacts : resume_campaign_bulk(exc, thrown)
    \/ cancel_campaign
    \/ \E t \in Threads : process_campaign_queue_query(t)
    \/ \E t \in Threads : process_campaign_queue_check(t)
    \/ \E t \in Threads : process_campaign_queue_complete(t)
    \/ \E t \in Threads : send_queued_email_begin(t)
    \/ \E t \in Threads, ok \in BOOLEAN : send_queued_email_finish(t, ok)
    \/ \E at \in {0, MaxTime} : admin_schedule(at)
    \/ schedule_campaigns
    \/ \E w \in Workers : task_send_campaign(w)
    \/ \E w \in Workers : task_process_campaign_queue_begin(w)
    \/ \E w \in Workers : task_process_campaign_queue_check(w)
    \/ \E w \in Workers : task_process_campaign_queue_complete(w)
    \/ \E w \in Workers : task_process_campaign_queue_dispatch(w)
    \/ \E w \in Workers, m \in broker : task_send_queued_email_begin(w, m.queue_id, m.retries)
    \/ \E w \in Workers, ok \in BOOLEAN : task_send_queued_email_finish(w, ok)

Spec == Init /\ [][Next]_vars

\* The send lifecycle without cancel_campaign.
NextNoCancel ==
    \/ \E exc \in BOOLEAN, thrown \in SUBSET Contacts : send_campaign(exc, thrown)
    \/ pause_campaign
    \/ resume_campaign_save
    \/ \E exc \in BOOLEAN, thrown \in SUBSET Contacts : resume_campaign_bulk(exc, thrown)
    \/ \E t \in Threads : process_campaign_queue_query(t)
    \/ \E t \in Threads : process_campaign_queue_check(t)
    \/ \E t \in Threads : process_campaign_queue_complete(t)
    \/ \E t \in Threads : send_queued_email_begin(t)
    \/ \E t \in Threads, ok \in BOOLEAN : send_queued_email_finish(t, ok)
    \/ \E at \in {0, MaxTime} : admin_schedule(at)
    \/ schedule_campaigns
    \/ \E w \in Workers : task_send_campaign(w)
    \/ \E w \in Workers : task_process_campaign_queue_begin(w)
    \/ \E w \in Workers : task_process_campaign_queue_check(w)
    \/ \E w \in Workers : task_process_campaign_queue_complete(w)
    \/ \E w \in Workers : task_process_campaign_queue_dispatch(w)
    \/ \E w \in Workers, m \in broker : task_send_queued_email_begin(w, m.queue_id, m.retries)
    \/ \E w \in Workers, ok \in BOOLEAN : task_send_queued_email_finish(w, ok)

SpecNoCancel == Init /\ [][NextNoCancel]_vars

\* The start of a campaign over any address book: contacts unsubscribe, the
\* operator calls send_campaign.
NextStart ==
    \/ \E c \in Contacts : unsubscribe(c)
    \/ \E exc \in BOOLEAN, thrown \in SUBSET Contacts : send_campaign(exc, thrown)

SpecStart == InitStart /\ [][NextStart]_vars

\* The operator's calls while the clock runs and no worker is scheduled.
NextCalls ==
    \/ \E exc \in BOOLEAN, thrown \in SUBSET Contacts : send_campaign(exc, thrown)
    \/ pause_campaign
    \/ resume_campaign_save
    \/ \E exc \in BOOLEAN, thrown \in SUBSET Contacts : resume_campaign_bulk(exc, thrown)
    \/ cancel_campaign
    \/ Tick

SpecCalls == Init /\ [][NextCalls]_vars

\* One step of the worker thread t.
ThreadStep(t) ==
    \/ process_campaign_queue_query(t)
    \/ process_campaign_queue_check(t)
    \/ process_campaign_queue_complete(t)
    \/ send_queued_email_begin(t)
    \/ \E ok \in BOOLEAN : send_queued_email_finish(t, ok)
    \/ send_queued_email_except(t, "Connection refused")

\* One started campaign, its worker thread and the clock; a send may also
\* raise inside _send_queued_email.
NextRetry ==
    \/ \E exc \in BOOLEAN, thrown \in SUBSET Contacts : send_campaign(exc, thrown)
    \/ \E t \in Threads : process_campaign_queue_query(t)
    \/ \E t \in Threads : process_campaign_queue_check(t)
    \/ \E t \in Threads : process_campaign_queue_complete(t)
    \/ \E t \in Threads : send_queued_email_begin(t)
    \/ \E t \in Threads, ok \in BOOLEAN : send_queued_email_finish(t, ok)
    \/ \E t \in Threads : send_queued_email_except(t, "Connection refused")
    \/ Tick

\* A started thread is a daemon thread the interpreter keeps scheduling, the
\* transport call returns, and time passes: each is weakly fair.
SpecRetry ==
    /\ Init
    /\ [][NextRetry]_vars
    /\ WF_vars(Tick)
    /\ \A t \in Threads : WF_vars(ThreadStep(t))

\* A campaign that was started and then paused and resumed once per further
\* thread, each resume queueing nothing anew: every thread is at the top of
\* its loop, over the one set of PENDING jobs.
InitUsage ==
    /\ contacts = [c \in Contacts |->
                      [email |-> [name |-> c, upper |-> FALSE],
                       is_active |-> TRUE, status |-> "ACTIVE"]]
    /\ contact_lists = <<Contacts>>
    /\ campaign = start_sending(DraftCampaign(1, <<EmailPlaceholder>>, <<EmailPlaceholder, Link>>, <<>>))
    /\ email_config \in {c \in InitConfigs : c.daily_send_limit <= c.monthly_send_limit}
    /\ now = 0
    /\ email_queue = QueuedRows({})
    /\ email_events = [k \in Contacts \X EventTypes |-> 0]
    /\ resumes = MaxResumes
    /\ resuming = FALSE
    /\ threads = [t \in Threads |-> [IdleThread EXCEPT !.pc = "query"]]
    /\ broker = {}
    /\ workers = [w \in Workers |-> IdleWorker]
    /\ result = Started

\* The worker threads sending concurrently while the beat tasks reset the
\* usage counters.
NextUsage ==
    \/ \E t \in Threads : process_campaign_queue_query(t)
    \/ \E t \in Threads : process_campaign_queue_check(t)
    \/ \E t \in Threads : process_campaign_queue_complete(t)
    \/ \E t \in Threads : send_queued_email_begin(t)
    \/ \E t \in Threads, ok \in BOOLEAN : send_queued_email_finish(t, ok)
    \/ reset_daily_email_limits
    \/ reset_monthly_email_limits

SpecUsage == InitUsage /\ [][NextUsage]_vars

\* EmailQueue.mark_failed alone, on every job it can be handed.
NextMarkFailed ==
    \E i \in QueueIds, error_message \in Errors : mark_failed_call(i, error_message)

SpecMarkFailed == InitMarkFailed /\ [][NextMarkFailed]_vars

\* ------------------------------------------------------------- the types ---

ConfigRows ==
    [is_active : BOOLEAN, domain_verified : BOOLEAN,
     daily_send_limit : 0..MaxLimit, monthly_send_limit : 0..MaxLimit,
     emails_sent_today : Nat, emails_sent_this_month : Nat]

TypeOK ==
    /\ \A c \in Contacts : contacts[c].email \in Emails
    /\ \A k \in 1..Len(contact_lists) : contact_lists[k] \subseteq Contacts
    /\ result.success \in BOOLEAN
    /\ campaign.status \in CampaignStatus
    /\ campaign.email_config_id \in 0..1
    /\ campaign.recipient_count \in Nat
    /\ campaign.emails_sent \in Nat
    /\ campaign.emails_delivered \in Nat
    /\ campaign.emails_failed \in Nat
    /\ \A i \in QueueIds :
          /\ email_queue[i].contact \in Contacts
          /\ email_queue[i].status \in QueueStatus
          /\ email_queue[i].attempts \in 0..MaxAttempts
          /\ email_queue[i].scheduled_at \in Nat
          /\ email_queue[i].error_message \in {""} \cup Errors
          /\ Len(email_queue[i].sent_at) \in 0..1
    /\ email_config \in ConfigRows
    /\ \A k \in Contacts \X EventTypes : email_events[k] \in Nat
    /\ now \in 0..MaxTime
    /\ resumes \in 0..MaxResumes
    /\ resuming \in BOOLEAN
    /\ \A m \in broker : m.task \in {"send_campaign", "process_campaign_queue", "send_queued_email"}
    /\ \A w \in Workers :
          /\ workers[w].pc \in {"idle", "check", "complete", "dispatch", "transport"}
          /\ workers[w].pc = "transport" => workers[w].queue_id \in QueueIds
          /\ workers[w].retries \in 0..MaxRetries
    /\ \A t \in Threads :
          /\ threads[t].pc \in {"idle", "query", "check", "complete", "batch", "transport"}
          /\ \A k \in 1..Len(threads[t].batch) : threads[t].batch[k].id \in QueueIds
          /\ threads[t].pc = "transport" => threads[t].job.id \in QueueIds
          /\ threads[t].pc = "batch" => threads[t].batch # <<>>
          /\ threads[t].conf \in ConfigRows

\* ---------------------------------------------------------------- claims ---

NonTerminal == {"PENDING", "SENDING", "RETRYING"}

\* The threads that are inside the transport call for job i.
InTransport(i) == {t \in Threads : threads[t].pc = "transport" /\ threads[t].job.id = i}

\* C1: claim exclusivity.  No EmailQueue job is being processed by two
\* workers at the same time: at no time are two workers inside the transport
\* call for the same job.
C1_ExclusiveClaim ==
    \A i \in QueueIds : Cardinality(InTransport(i)) <= 1

\* C2: idempotent resume.  The resume_campaign call leaves the campaign's
\* EmailQueue rows as they were: its send_bulk_campaign step creates no row
\* and changes the content of none.
C2_ResumeKeepsQueue ==
    [][(resuming /\ ~resuming') =>
          /\ Len(email_queue') = Len(email_queue)
          /\ \A i \in QueueIds :
                email_queue'[i].personalized_html_content
                    = email_queue[i].personalized_html_content]_vars

\* C3: in every reachable state there is at most one EmailQueue job in a
\* non-terminal status (PENDING, SENDING, RETRYING) per (campaign, contact).
C3_OneNonTerminalJobPerContact ==
    \A c \in Contacts :
        Cardinality({i \in QueueIds : /\ email_queue[i].contact = c
                                      /\ email_queue[i].status \in NonTerminal}) <= 1

\* C4: jobs are processed only while their campaign is SENDING: a worker
\* enters the transport call for a job only in a state where the campaign's
\* status is SENDING.
C4_SendOnlyWhileSending ==
    [][\A t \in Threads :
          (threads[t].pc # "transport" /\ threads'[t].pc = "transport")
              => campaign.status = "SENDING"]_vars

\* C5: every change of EmailCampaign.status follows the lifecycle's edges,
\* none of which leaves CANCELLED, COMPLETED ('SENT') or FAILED: a campaign
\* in one of these never changes status again.
C5_TerminalStatusStays ==
    [][campaign.status \in {"CANCELLED", "SENT", "FAILED"}
          => campaign'.status = campaign.status]_vars

\* C6: the campaign's status is set to COMPLETED ('SENT') only in a state
\* where no EmailQueue job of the campaign is PENDING, RETRYING or SENDING.
C6_CompleteOnlyWhenDrained ==
    [][\A t \in Threads :
          (threads[t].pc = "complete" /\ threads'[t].pc = "idle")
              => \A i \in QueueIds : email_queue[i].status \notin NonTerminal]_vars

\* C7: completion happens exactly once.  In a send lifecycle that is never
\* cancelled, complete_sending takes effect once: no worker runs it on a
\* campaign that is already COMPLETED ('SENT').
C7_CompletedOnce ==
    [][\A t \in Threads :
          (threads[t].pc = "complete" /\ threads'[t].pc = "idle")
              => campaign.status # "SENT"]_vars

\* C8: a job that cancel_campaign marked CANCELLED never changes status
\* again (no worker sends it afterwards).
C8_CancelledStays ==
    [][\A i \in QueueIds :
          email_queue[i].status = "CANCELLED" => email_queue'[i].status = "CANCELLED"]_vars

\* The transport sends that succeeded: send_email logs one SENT event each.
RECURSIVE SentEvents(_)
SentEvents(cs) ==
    IF cs = {} THEN 0
    ELSE LET c == CHOOSE x \in cs : TRUE
         IN email_events[<<c, "SENT">>] + SentEvents(cs \ {c})

\* C9: rate-limit enforcement.  With no counter reset, at most
\* daily_send_limit transport sends succeed through send_email, for any
\* number of concurrent workers.
C9_AtMostDailyLimitSends ==
    SentEvents(Contacts) <= email_config.daily_send_limit

\* The step in which thread t picks its next job and the gate denies it.
GateDenies(t) ==
    /\ threads[t].pc = "batch"
    /\ ~can_send_email(email_config)
    /\ threads'[t].batch = Tail(threads[t].batch)

\* C10: rate-limit exhaustion is backpressure: when can_send_email denies a
\* job, the job stays PENDING, its attempts are unchanged and the campaign's
\* emails_failed is unchanged.
C10_DeniedJobStaysPending ==
    [][\A t \in Threads :
          GateDenies(t) =>
              LET i == Head(threads[t].batch).id
              IN  /\ email_queue'[i].status = "PENDING"
                  /\ email_queue'[i].attempts = email_queue[i].attempts
                  /\ campaign'.emails_failed = campaign.emails_failed]_vars

\* The step in which thread t enters the transport call for its next job.
StartsTransport(t) ==
    threads[t].pc # "transport" /\ threads'[t].pc = "transport"

\* The step in which Celery worker w enters the transport call.
TaskStartsTransport(w) ==
    workers[w].pc # "transport" /\ workers'[w].pc = "transport"

PicksUp(t) ==
    threads[t].pc = "batch" /\ threads'[t].batch = Tail(threads[t].batch)

\* C12: retry bound.  A job that has failed before is picked up for sending
\* again only if it is not FAILED (its attempts are not exhausted) and only
\* at a time not earlier than its scheduled_at.
C12_RetryNotBefore ==
    [][\A t \in Threads :
          PicksUp(t) =>
              LET i == Head(threads[t].batch).id
              IN  email_queue[i].attempts >= 1 =>
                      /\ email_queue[i].status # "FAILED"
                      /\ email_queue[i].attempts < MaxAttempts
                      /\ email_queue[i].scheduled_at <= now]_vars

\* C13: emails_failed increases only when a job becomes terminally FAILED,
\* never on a failure that leads to RETRYING (so two failures followed by a
\* success leave emails_failed as it was).
C13_FailedCountsOnlyTerminal ==
    [][campaign'.emails_failed > campaign.emails_failed =>
          \E i \in QueueIds : /\ email_queue[i].status # "FAILED"
                              /\ email_queue'[i].status = "FAILED"]_vars

\* The step in which thread t's transport call returns.
TransportReturns(t) ==
    threads[t].pc = "transport" /\ threads'[t].pc # "transport"

\* C14: the campaign counters never decrease, and no increment is lost: a
\* worker's increment_sent / increment_failed leaves the counter one higher
\* than it was, whatever the other workers do.
C14_CountersMonotonic ==
    [][/\ campaign'.emails_sent >= campaign.emails_sent
       /\ campaign'.emails_failed >= campaign.emails_failed
       /\ campaign'.emails_delivered >= campaign.emails_delivered
       /\ \A t \in Threads :
             TransportReturns(t) =>
                 IF email_queue'[threads[t].job.id].status = "SENT"
                 THEN campaign'.emails_sent = campaign.emails_sent + 1
                 ELSE campaign'.emails_failed = campaign.emails_failed + 1]_vars

\* A step in which a CampaignService.send_campaign call returns its result.
SendCampaignReturns == result' # result

\* C15: if the set of eligible recipients resolved at send time is empty,
\* the send does not start: the campaign does not enter SENDING, no job is
\* created and the caller gets an error result.
C15_EmptySetDoesNotStart ==
    [][(campaign.status = "DRAFT" /\ Resolved = {} /\ SendCampaignReturns) =>
          /\ campaign'.status # "SENDING"
          /\ email_queue' = email_queue
          /\ ~result'.success
          /\ result'.error # ""]_vars

\* C16: a campaign enters SENDING from DRAFT or SCHEDULED only after
\* validation has passed: a non-empty recipient set, a configuration that is
\* active and verified, a subject and an HTML or text body; on every path,
\* the scheduled one (schedule_campaigns, send_campaign task) included.
C16_SendingOnlyIfValid ==
    [][(campaign.status \in {"DRAFT", "SCHEDULED"} /\ campaign'.status = "SENDING") =>
          /\ campaign.recipient_count # 0
          /\ campaign.email_config_id # 0
          /\ email_config.is_active
          /\ email_config.domain_verified
          /\ campaign.subject # <<>>
          /\ campaign.html_content # <<>> \/ campaign.text_content # <<>>]_vars

\* A DRAFT campaign that fails one of the tests of validation.
C17_Invalid ==
    /\ campaign.status = "DRAFT"
    /\ \/ campaign.email_config_id = 0
       \/ ~email_config.domain_verified
       \/ ~email_config.is_active
       \/ campaign.recipient_count = 0
       \/ email_config.emails_sent_today >= email_config.daily_send_limit
       \/ email_config.emails_sent_this_month >= email_config.monthly_send_limit
       \/ campaign.html_content = <<>> /\ campaign.text_content = <<>>
       \/ campaign.subject = <<>>

\* C17: when validation fails in send_campaign, the caller receives
\* {success: False, error: message}; the campaign stays as it is (DRAFT, its
\* counters unchanged), no EmailQueue job is created and no worker is started.
C17_InvalidChangesNothing ==
    [][(C17_Invalid /\ SendCampaignReturns) =>
          /\ ~result'.success
          /\ result'.error # ""
          /\ campaign' = campaign
          /\ email_queue' = email_queue
          /\ threads' = threads]_vars

\* A call on a campaign whose lists hold no active contact was turned down.
C17_Witness ==
    /\ result = Failure("Campaign has no recipients")
    /\ campaign.status = "DRAFT"
    /\ email_queue = <<>>

\* C18: a campaign that went to FAILED can be retried: a send_campaign call
\* on the FAILED campaign, with the cause gone (no exception this time), is
\* accepted and starts sending.
C18_FailedCanBeRetried ==
    [][(campaign.status = "FAILED" /\ SendCampaignReturns) =>
          \/ result'.success /\ campaign'.status = "SENDING"
          \/ campaign'.status = "FAILED" /\ result'.error = "Failed to start campaign sending"]_vars

\* The step of send_bulk_campaign that queues the first rows of a campaign.
QueuesFirstRows == email_queue = <<>> /\ email_queue' # <<>>

\* The contacts of the campaign's lists that are active.
EligibleContacts ==
    {c \in Contacts : \E k \in 1..Len(contact_lists) : c \in ActiveContacts(contact_lists[k])}

\* C19: recipient resolution yields exactly one job per distinct eligible
\* recipient: every job is for an active contact of the lists, and every
\* address among them, compared without regard to case, gets one job.
C19_OneJobPerAddress ==
    [][QueuesFirstRows =>
          /\ \A i \in 1..Len(email_queue') : email_queue'[i].contact \in EligibleContacts
          /\ \A c \in EligibleContacts :
                Cardinality({i \in 1..Len(email_queue') :
                                Lower(contacts[email_queue'[i].contact].email)
                                    = Lower(contacts[c].email)}) = 1]_vars

\* C20: idempotent personalization.  Two EmailQueue rows made from the same
\* campaign templates for the same contact carry the same personalized
\* subject, HTML and text, whatever time passed between the two.
C20_SameContentTwice ==
    \A i, j \in QueueIds :
        email_queue[i].contact = email_queue[j].contact =>
            /\ email_queue[i].personalized_subject = email_queue[j].personalized_subject
            /\ email_queue[i].personalized_html_content
                   = email_queue[j].personalized_html_content
            /\ email_queue[i].personalized_text_content
                   = email_queue[j].personalized_text_content

\* C22: a call of mark_failed adds exactly 1 to attempts and stores the error
\* message; when the new attempts is below max_attempts (3) the job is RETRYING
\* and due 5 minutes times attempts from now; otherwise it is FAILED and its
\* scheduled_at is what it was.
C22_MarkFailed ==
    [][\A i \in QueueIds :
          email_queue'[i] # email_queue[i] =>
             /\ email_queue'[i].attempts = email_queue[i].attempts + 1
             /\ email_queue'[i].error_message \in Errors
             /\ IF email_queue'[i].attempts < 3
                THEN /\ email_queue'[i].status = "RETRYING"
                     /\ email_queue'[i].scheduled_at = now + 5 * email_queue'[i].attempts
                ELSE /\ email_queue'[i].status = "FAILED"
                     /\ email_queue'[i].scheduled_at = email_queue[i].scheduled_at]_vars

\* A job whose third failure made it FAILED.
C22_Witness ==
    \E i \in QueueIds :
        /\ email_queue[i].status = "FAILED"
        /\ email_queue[i].attempts = 3
        /\ email_queue[i].error_message \in Errors

\* C21: a RETRYING job whose scheduled_at has passed, of a SENDING campaign,
\* is eventually picked up again: it leaves RETRYING, or the campaign leaves
\* SENDING.
C21_RetryingIsRetried ==
    \A i \in 1..NumContacts :
        (/\ i \in QueueIds
         /\ email_queue[i].status = "RETRYING"
         /\ email_queue[i].scheduled_at <= now
         /\ campaign.status = "SENDING")
        ~> (/\ i \in QueueIds
            /\ \/ email_queue[i].status # "RETRYING"
               \/ campaign.status # "SENDING")

\* A step in which the transport accepted a message for contact c: send_email
\* logs the SENT event in that step.
SendSucceeds(c) == email_events'[<<c, "SENT">>] # email_events[<<c, "SENT">>]

\* C23: on every successful transport send, of a worker thread or of a Celery
\* task, a job of the contact is SENT, exactly one SENT event is added,
\* emails_sent and emails_delivered each grow by exactly 1, and so do the
\* configuration's daily and monthly usage counters.
C23_SuccessfulSend ==
    [][\A c \in Contacts :
          SendSucceeds(c) =>
             /\ email_events'[<<c, "SENT">>] = email_events[<<c, "SENT">>] + 1
             /\ \E i \in QueueIds : /\ email_queue[i].contact = c
                                    /\ email_queue'[i].status = "SENT"
             /\ campaign'.emails_sent = campaign.emails_sent + 1
             /\ campaign'.emails_delivered = campaign.emails_delivered + 1
             /\ email_config'.emails_sent_today = email_config.emails_sent_today + 1
             /\ email_config'.emails_sent_this_month =
                   email_config.emails_sent_this_month + 1]_vars

\* C25: a campaign does not go from DRAFT to SENDING with a resolved
\* recipient's job missing (a throwing _queue_campaign_email makes it FAILED
\* instead), and a step that marks a job failed leaves the campaign's status
\* as it is.
C25_QueueingFailureFails ==
    [][/\ (campaign.status = "DRAFT" /\ campaign'.status = "SENDING") =>
             \A c \in Resolved :
                \E i \in 1..Len(email_queue') : email_queue'[i].contact = c
       /\ (\E i \in QueueIds : /\ email_queue'[i].status \in {"RETRYING", "FAILED"}
                                /\ email_queue'[i] # email_queue[i]) =>
             campaign'.status = campaign.status]_vars

\* A step in which job i's send fails: mark_failed saves it.
JobFails(i) ==
    /\ email_queue'[i] # email_queue[i]
    /\ email_queue'[i].status \in {"RETRYING", "FAILED"}

C27_SentIsAbsorbing ==
    [][\A i \in QueueIds :
          email_queue[i].status = "SENT" =>
             /\ email_queue'[i].status = "SENT"
             /\ email_queue'[i].attempts = email_queue[i].attempts
             /\ email_queue'[i].sent_at = email_queue[i].sent_at]_vars

\* C28: when the campaign becomes SENT (completed), every resolved recipient
\* has a job, and that job is SENT, FAILED or CANCELLED.
C28_CompletedCoversRecipients ==
    [][(campaign.status # "SENT" /\ campaign'.status = "SENT") =>
          \A c \in Resolved :
             \E i \in QueueIds :
                /\ email_queue'[i].contact = c
                /\ email_queue'[i].status \in {"SENT", "FAILED", "CANCELLED"}]_vars

\* C29: the stored usage counters never exceed their limits:
\* emails_sent_today <= daily_send_limit and
\* emails_sent_this_month <= monthly_send_limit in every state.
C29_UsageWithinLimits ==
    /\ email_config.emails_sent_today <= email_config.daily_send_limit
    /\ email_config.emails_sent_this_month <= email_config.monthly_send_limit

\* More messages went out than the daily limit allows (two threads passed
\* the gate together, or a reset came between), and the counter is at its
\* limit.
C29_Witness ==
    /\ SentEvents(Contacts) > email_config.daily_send_limit
    /\ email_config.emails_sent_today = email_config.daily_send_limit

\* C30: the worker loop ends.  Every job a pass handles is out of PENDING when
\* the thread is done with it (SENT, RETRYING or FAILED); the thread leaves
\* its loop only when no PENDING job with scheduled_at <= now remains; and a
\* running thread ends in the end.
C30_WorkerTerminates ==
    /\ [][\A t \in Threads :
             /\ (threads[t].pc = "transport" /\ threads'[t].pc # "transport") =>
                   email_queue'[threads[t].job.id].status \in {"SENT", "RETRYING", "FAILED"}
             /\ (threads[t].pc = "batch" /\ threads'[t].pc # "transport"
                                         /\ threads'[t] # threads[t]) =>
                   email_queue'[Head(threads[t].batch).id].status
                      \in {"SENT", "RETRYING", "FAILED"}
             /\ (threads[t].pc # "idle" /\ threads'[t].pc = "idle") =>
                   ~\E i \in QueueIds : /\ email_queue[i].status = "PENDING"
                                         /\ email_queue[i].scheduled_at <= now]_vars
    /\ \A t \in Threads : (threads[t].pc # "idle") ~> (threads[t].pc = "idle")

\* A thread has run and ended: jobs exist, none is PENDING, no thread runs.
C30_Witness ==
    /\ QueueIds # {}
    /\ \A i \in QueueIds : email_queue[i].status # "PENDING"
    /\ \A t \in Threads : threads[t].pc = "idle"

=============================================================================
